---- MODULE Spec2Model ----
(***************************************************************************)
(* A model of the Simple Bank System: the account classes of classes.py    *)
(* and the BankSystem store, session and dispatcher of main.py.            *)
(*                                                                         *)
(* Python strings are sequences of one-character strings, so that the      *)
(* flat-file codec (f-string formatting, strip, split(",")) is computed    *)
(* character by character.  Amounts and balances are Python floats; the    *)
(* model keeps the whole-valued ones as integers, and formats and parses   *)
(* them as Python prints whole floats ("2.0", "-1.0").                     *)
(***************************************************************************)
EXTENDS Integers, Sequences, FiniteSets, TLC

VARIABLES customers, accounts, transactions, current_user, called, running

vars == <<customers, accounts, transactions, current_user, called, running>>

(***************************************************************************)
(* Bounds of the model.                                                    *)
(***************************************************************************)
MaxAccounts == 2
MaxTransactions == 2
MaxBalance == 1
MaxMonthlyWithdrawals == 2
MaxCreditLimit == 2

(***************************************************************************)
(* Strings.                                                                *)
(***************************************************************************)
None == <<>>
Some(x) == <<x>>

S_admin == <<"a", "d", "m", "i", "n">>
S_Savings == <<"S", "a", "v", "i", "n", "g", "s">>
S_Checking == <<"C", "h", "e", "c", "k", "i", "n", "g">>
S_deposit == <<"d", "e", "p", "o", "s", "i", "t">>
S_withdrawal == <<"w", "i", "t", "h", "d", "r", "a", "w", "a", "l">>
S_transfer == <<"t", "r", "a", "n", "s", "f", "e", "r">>
S_COMPLETE == <<"C", "O", "M", "P", "L", "E", "T", "E">>
S_ABORTED == <<"A", "B", "O", "R", "T", "E", "D">>

DigitChars == <<"0", "1", "2", "3", "4", "5", "6", "7", "8", "9">>

IsDigit(c) == \E i \in 1..10 : DigitChars[i] = c

DigitValue(c) == (CHOOSE i \in 1..10 : DigitChars[i] = c) - 1

\* str(n) and f"{n}" of a Python int
RECURSIVE StrNat(_)
StrNat(n) == IF n < 10 THEN <<DigitChars[n + 1]>>
             ELSE StrNat(n \div 10) \o <<DigitChars[(n % 10) + 1]>>

StrInt(n) == IF n < 0 THEN <<"-">> \o StrNat(-n) ELSE StrNat(n)

\* f"{x}" of a whole-valued Python float
StrFloat(x) == StrInt(x) \o <<".", "0">>

IsDigits(s) == Len(s) > 0 /\ \A i \in 1..Len(s) : IsDigit(s[i])

RECURSIVE NatOf(_)
NatOf(s) == IF Len(s) = 0 THEN 0
            ELSE 10 * NatOf(SubSeq(s, 1, Len(s) - 1)) + DigitValue(s[Len(s)])

\* whether int(s) returns (it raises ValueError otherwise)
IsInt(s) == \/ IsDigits(s)
            \/ Len(s) > 1 /\ s[1] = "-" /\ IsDigits(Tail(s))

\* int(s)
IntOf(s) == IF s[1] = "-" THEN 0 - NatOf(Tail(s)) ELSE NatOf(s)

\* whether float(s) returns a whole value the model holds: "2", "2.0", "-1.0"
IsFloat(s) == \/ IsInt(s)
              \/ /\ Len(s) > 2
                 /\ s[Len(s) - 1] = "."
                 /\ s[Len(s)] = "0"
                 /\ IsInt(SubSeq(s, 1, Len(s) - 2))

\* float(s)
FloatOf(s) == IF IsInt(s) THEN IntOf(s) ELSE IntOf(SubSeq(s, 1, Len(s) - 2))

IsSpace(c) == c = " " \/ c = "\n"

\* str.strip()
RECURSIVE Strip(_)
Strip(s) == IF Len(s) = 0 THEN s
            ELSE IF IsSpace(s[1]) THEN Strip(Tail(s))
            ELSE IF IsSpace(s[Len(s)]) THEN Strip(SubSeq(s, 1, Len(s) - 1))
            ELSE s

\* str.split(","): the fields between the commas, empty ones included
RECURSIVE Split(_)
Split(s) ==
    IF \A i \in 1..Len(s) : s[i] # ","
    THEN <<s>>
    ELSE LET k == CHOOSE i \in 1..Len(s) :
                      s[i] = "," /\ \A j \in 1..(i - 1) : s[j] # ","
         IN <<SubSeq(s, 1, k - 1)>> \o Split(SubSeq(s, k + 1, Len(s)))

\* the fields of an f-string "{a},{b},...\n"
RECURSIVE Line(_)
Line(fields) == IF Len(fields) = 1 THEN fields[1] \o <<"\n">>
                ELSE fields[1] \o <<",">> \o Line(Tail(fields))

\* hashlib.sha256(password.encode()).hexdigest(): a digest over the hex
\* alphabet, one-to-one on the passwords of the model
HexOf(c) == CASE c = "p" -> "7"
              [] c = "q" -> "8"
              [] c = "a" -> "a"
              [] c = "d" -> "d"
              [] c = "m" -> "3"
              [] c = "i" -> "1"
              [] c = "n" -> "5"
              [] OTHER -> "0"

sha256(password) == <<"e">> \o [i \in 1..Len(password) |-> HexOf(password[i])]

(***************************************************************************)
(* classes.py.  An account object is a record; `heap` maps each reference  *)
(* to its object, so that a transfer whose recipient is the source itself  *)
(* acts twice on the one object, as the Python code does.  A method yields *)
(* its return value and the heap it leaves.                                *)
(***************************************************************************)
Customer(customer_id, name, age, login, password) ==
    [customer_id |-> customer_id, name |-> name, age |-> age,
     login |-> login, password |-> password]

SavingsAccount(account_id, customer_id, balance, monthly_withdrawals) ==
    [class |-> "SavingsAccount", account_id |-> account_id,
     customer_id |-> customer_id, balance |-> balance,
     monthly_withdrawals |-> monthly_withdrawals]

CheckingAccount(account_id, customer_id, balance, credit_limit) ==
    [class |-> "CheckingAccount", account_id |-> account_id,
     customer_id |-> customer_id, balance |-> balance,
     credit_limit |-> credit_limit]

isinstance(account, class) == account.class = class

\* Account.deposit refusing an amount that is not positive
Account_deposit_PositiveOnly(heap, self, amount) ==
    IF amount > 0
    THEN [ret |-> TRUE, heap |-> [heap EXCEPT ![self].balance = @ + amount]]
    ELSE [ret |-> FALSE, heap |-> heap]

Account_deposit(heap, self, amount) ==
    [ret |-> TRUE, heap |-> [heap EXCEPT ![self].balance = @ + amount]]

\* SavingsAccount.withdrawal with the counter left as it is
SavingsAccount_withdrawal_NoCount(heap, self, amount) ==
    IF heap[self].monthly_withdrawals > 0
    THEN [ret |-> TRUE, heap |-> [heap EXCEPT ![self].balance = @ - amount]]
    ELSE [ret |-> FALSE, heap |-> heap]

SavingsAccount_withdrawal(heap, self, amount) ==
    IF heap[self].monthly_withdrawals > 0
    THEN [ret |-> TRUE,
          heap |-> [heap EXCEPT ![self].balance = @ - amount,
                                ![self].monthly_withdrawals = @ - 1]]
    ELSE [ret |-> FALSE, heap |-> heap]

SavingsAccount_transfer(heap, self, amount, recipient_account) ==
    IF heap[self].monthly_withdrawals > 0
    THEN LET debited == [heap EXCEPT ![self].balance = @ - amount]
             credited == Account_deposit(debited, recipient_account, amount).heap
         IN [ret |-> TRUE,
             heap |-> [credited EXCEPT ![self].monthly_withdrawals = @ - 1]]
    ELSE [ret |-> FALSE, heap |-> heap]

\* CheckingAccount.withdrawal with the credit limit left out of the guard
CheckingAccount_withdrawal_NoCredit(heap, self, amount) ==
    IF heap[self].balance >= amount
    THEN [ret |-> TRUE, heap |-> [heap EXCEPT ![self].balance = @ - amount]]
    ELSE [ret |-> FALSE, heap |-> heap]

\* CheckingAccount.withdrawal without its guard, as Account.withdrawal is
CheckingAccount_withdrawal_Unchecked(heap, self, amount) ==
    [ret |-> TRUE, heap |-> [heap EXCEPT ![self].balance = @ - amount]]

CheckingAccount_withdrawal(heap, self, amount) ==
    IF heap[self].balance + heap[self].credit_limit >= amount
    THEN [ret |-> TRUE, heap |-> [heap EXCEPT ![self].balance = @ - amount]]
    ELSE [ret |-> FALSE, heap |-> heap]

\* CheckingAccount.transfer with the recipient's deposit left out
CheckingAccount_transfer_NoDeposit(heap, self, amount, recipient_account) ==
    IF heap[self].balance + heap[self].credit_limit >= amount
    THEN [ret |-> TRUE, heap |-> [heap EXCEPT ![self].balance = @ - amount]]
    ELSE [ret |-> FALSE, heap |-> heap]

CheckingAccount_transfer(heap, self, amount, recipient_account) ==
    IF heap[self].balance + heap[self].credit_limit >= amount
    THEN LET debited == [heap EXCEPT ![self].balance = @ - amount]
         IN [ret |-> TRUE,
             heap |-> Account_deposit(debited, recipient_account, amount).heap]
    ELSE [ret |-> FALSE, heap |-> heap]

\* account.withdrawal(amount), dispatched on the object's class
withdrawal(heap, self, amount) ==
    IF isinstance(heap[self], "SavingsAccount")
    THEN SavingsAccount_withdrawal(heap, self, amount)
    ELSE CheckingAccount_withdrawal(heap, self, amount)

\* account.transfer(amount, recipient_account), dispatched on the object's class
transfer(heap, self, amount, recipient_account) ==
    IF isinstance(heap[self], "SavingsAccount")
    THEN SavingsAccount_transfer(heap, self, amount, recipient_account)
    ELSE CheckingAccount_transfer(heap, self, amount, recipient_account)

\* Account.show_balance: the four lines it prints
show_balance(account) ==
    <<account.account_id, account.customer_id, account.balance,
      IF account.balance < 0 THEN "Overdrawn" ELSE "Active">>

(***************************************************************************)
(* main.py: the store.  self.customers is a dict keyed by login; the model *)
(* keeps it as the sequence of its values in insertion order, which        *)
(* create_account's scan depends on.  self.accounts and self.transactions  *)
(* are functions from the account id: nothing reads their order but        *)
(* save_data, and load_data's result does not depend on the order of lines *)
(* of different keys.                                                      *)
(***************************************************************************)
\* the keys of self.customers
Logins(cs) == {cs[i].login : i \in 1..Len(cs)}

\* self.customers[login]
CustomerOf(cs, login) == cs[CHOOSE i \in 1..Len(cs) : cs[i].login = login]

\* self.customers[login] = customer: a present key keeps its place
PutCustomer(cs, login, customer) ==
    IF login \in Logins(cs)
    THEN [i \in 1..Len(cs) |-> IF cs[i].login = login THEN customer ELSE cs[i]]
    ELSE Append(cs, customer)

\* self.transactions.get(account_id, [])
TransactionsGet(ts, account_id) ==
    IF account_id \in DOMAIN ts THEN ts[account_id] ELSE <<>>

\* the record stored as the whole list: self.transactions[account_id] = [record]
TransactionsAppend_Overwrite(ts, account_id, record) ==
    [k \in DOMAIN ts \cup {account_id} |->
        IF k = account_id THEN <<record>> ELSE ts[k]]

\* self.transactions.setdefault(account_id, []).append(record)
TransactionsAppend(ts, account_id, record) ==
    [k \in DOMAIN ts \cup {account_id} |->
        IF k = account_id THEN Append(TransactionsGet(ts, account_id), record)
        ELSE ts[k]]

\* self.accounts[account_id] = account
PutAccount(as, account_id, account) ==
    [k \in DOMAIN as \cup {account_id} |->
        IF k = account_id THEN account ELSE as[k]]

\* del d[key]
Del(d, key) == [k \in DOMAIN d \ {key} |-> d[k]]

\* the elements of a finite set, in some order
RECURSIVE SeqOf(_)
SeqOf(S) == IF S = {} THEN <<>>
            ELSE LET x == CHOOSE y \in S : TRUE IN <<x>> \o SeqOf(S \ {x})

RECURSIVE Concat(_)
Concat(ss) == IF Len(ss) = 0 THEN <<>> ELSE ss[1] \o Concat(Tail(ss))

\* every record of self.transactions, account by account
AllTransactions(ts) ==
    LET ids == SeqOf(DOMAIN ts) IN Concat([i \in 1..Len(ids) |-> ts[ids[i]]])

\* the bounds of the model, on the state an operation leaves: the number of
\* accounts, the size of a balance, the number of records in the ledger
Bounded(as, ts) ==
    /\ Cardinality(DOMAIN as) <= MaxAccounts
    /\ \A k \in DOMAIN as : as[k].balance \in (0 - MaxBalance)..MaxBalance
    /\ Len(AllTransactions(ts)) <= MaxTransactions


(***************************************************************************)
(* main.py.  Each handler is an operator that yields what the call prints  *)
(* (its notice, and the data it shows) and the values it leaves in the     *)
(* fields it writes, and an action that stores them.                       *)
(***************************************************************************)
\* login without the comparison of the password hashes
login_result_AnyPassword(login_, password) ==
    IF login_ \in Logins(customers)
    THEN [notice |-> "Login successful.", current_user |-> Some(login_)]
    ELSE [notice |-> "Login not found.", current_user |-> current_user]

login_result(login_, password) ==
    IF login_ \in Logins(customers)
    THEN IF CustomerOf(customers, login_).password = sha256(password)
         THEN [notice |-> "Login successful.", current_user |-> Some(login_)]
         ELSE [notice |-> "Incorrect password.", current_user |-> current_user]
    ELSE [notice |-> "Login not found.", current_user |-> current_user]

login(login_, password) ==
    /\ running
    /\ current_user' = login_result(login_, password).current_user
    /\ UNCHANGED <<customers, accounts, transactions, called, running>>

admin_password == S_admin

admin_login_result(password) ==
    IF password = admin_password
    THEN [notice |-> "Admin login successful.", current_user |-> Some(S_admin)]
    ELSE [notice |-> "Incorrect admin password.", current_user |-> current_user]

admin_login(password) ==
    /\ running
    /\ current_user' = admin_login_result(password).current_user
    /\ UNCHANGED <<customers, accounts, transactions, called, running>>

logout ==
    /\ running
    /\ current_user' = None
    /\ UNCHANGED <<customers, accounts, transactions, called, running>>

\* the ownership check with its comparison of customer ids inverted
NotAuthorized_Inverted(account) ==
    /\ current_user # Some(S_admin)
    /\ account.customer_id = CustomerOf(customers, current_user[1]).customer_id

\* the ownership check of view_transactions, perform_operations and
\* check_balance: true when the call is refused
NotAuthorized(account) ==
    /\ current_user # Some(S_admin)
    /\ account.customer_id # CustomerOf(customers, current_user[1]).customer_id

\* create_customer also appends the new line to data/customers.txt;
\* save_data truncates and rewrites that file before load_data next reads
\* it, so the store does not depend on the appended line.
create_customer_result(name, age, login_, password) ==
    LET customer_id == StrNat(Len(customers) + 1)
        hashed_password == sha256(password)
    IN [notice |-> "Customer created successfully.",
        customers |-> PutCustomer(customers, login_,
                          Customer(customer_id, name, age, login_, hashed_password))]

create_customer(name, age, login_, password) ==
    /\ running
    /\ customers' = create_customer_result(name, age, login_, password).customers
    /\ UNCHANGED <<accounts, transactions, current_user, called, running>>

\* the scan of create_account: the customers holding customer_id
Found(customer_id) ==
    {i \in 1..Len(customers) : customers[i].customer_id = customer_id}

\* found_customer: the last of them in the dict's order
FoundCustomer(customer_id) ==
    customers[CHOOSE i \in Found(customer_id) :
                  \A j \in Found(customer_id) : j <= i]

\* the account create_account builds for a known account type
NewAccount(account_id, customer_id, account_type) ==
    IF account_type = S_Savings
    THEN SavingsAccount(account_id, customer_id, 0, 1)
    ELSE CheckingAccount(account_id, customer_id, 0, 0)

create_account_result(customer_id, account_type) ==
    LET account_id == StrNat(Cardinality(DOMAIN accounts) + 1)
    IN IF Found(customer_id) = {}
       THEN [notice |-> "Customer ID not found.", accounts |-> accounts]
       ELSE IF \/ account_type = S_Savings /\ FoundCustomer(customer_id).age < 14
               \/ account_type = S_Checking /\ FoundCustomer(customer_id).age < 18
       THEN [notice |-> "You do not meet the age requirement for this account type.",
             accounts |-> accounts]
       ELSE IF account_type \in {S_Savings, S_Checking}
       THEN [notice |-> "account created successfully.",
             accounts |-> PutAccount(accounts, account_id,
                              NewAccount(account_id, customer_id, account_type))]
       ELSE [notice |-> "Invalid account type.", accounts |-> accounts]

create_account(customer_id, account_type) ==
    /\ running
    /\ accounts' = create_account_result(customer_id, account_type).accounts
    /\ Bounded(accounts', transactions)
    /\ UNCHANGED <<customers, transactions, current_user, called, running>>

delete_account_result(account_id) ==
    IF account_id \notin DOMAIN accounts
    THEN [notice |-> "Account ID not found.",
          accounts |-> accounts, transactions |-> transactions]
    ELSE [notice |-> "deleted successfully.",
          accounts |-> Del(accounts, account_id),
          transactions |-> IF account_id \in DOMAIN transactions
                           THEN Del(transactions, account_id)
                           ELSE transactions]

delete_account(account_id) ==
    /\ running
    /\ accounts' = delete_account_result(account_id).accounts
    /\ transactions' = delete_account_result(account_id).transactions
    /\ UNCHANGED <<customers, current_user, called, running>>

view_transactions_result(account_id) ==
    IF current_user = None
    THEN [notice |-> "Please login to perform operations.", shown |-> <<>>]
    ELSE IF account_id \notin DOMAIN accounts
    THEN [notice |-> "Account ID not found.", shown |-> <<>>]
    ELSE IF NotAuthorized(accounts[account_id])
    THEN [notice |-> "You are not authorized to perform operations on this account.",
          shown |-> <<>>]
    ELSE IF account_id \notin DOMAIN transactions
    THEN [notice |-> "No transactions found for this account.", shown |-> <<>>]
    ELSE [notice |-> "Transaction history for Account ID",
          shown |-> <<account_id, transactions[account_id]>>]

\* view_transactions only prints
view_transactions(account_id) ==
    /\ running
    /\ view_transactions_result(account_id).notice # ""
    /\ UNCHANGED vars

check_balance_result(account_id) ==
    IF current_user = None
    THEN [notice |-> "Please login to check balance.", shown |-> <<>>]
    ELSE IF account_id \notin DOMAIN accounts
    THEN [notice |-> "Account ID not found.", shown |-> <<>>]
    ELSE IF NotAuthorized(accounts[account_id])
    THEN [notice |-> "You are not authorized to check balance of this account.",
          shown |-> <<>>]
    ELSE [notice |-> "Current Balance", shown |-> show_balance(accounts[account_id])]

\* check_balance only prints
check_balance(account_id) ==
    /\ running
    /\ check_balance_result(account_id).notice # ""
    /\ UNCHANGED vars

(***************************************************************************)
(* main.py: the dispatcher.  The Savings and the Checking branch of        *)
(* perform_operations are the same text; the account's class enters only   *)
(* through the method the call is dispatched to.                           *)
(***************************************************************************)
Status(ret) == IF ret THEN S_COMPLETE ELSE S_ABORTED

\* choice "1"
DepositChoice(account_id, transaction_id, amount) ==
    LET r == Account_deposit(accounts, account_id, amount)
    IN [notice |-> IF r.ret THEN "Deposit successful." ELSE "Operation aborted.",
        accounts |-> r.heap,
        transactions |-> TransactionsAppend(transactions, account_id,
                             <<transaction_id, amount, S_deposit, Status(r.ret)>>)]

\* choice "2"
WithdrawalChoice(account_id, transaction_id, amount) ==
    LET r == withdrawal(accounts, account_id, amount)
    IN [notice |-> IF r.ret THEN "Withdrawal successful." ELSE "Operation aborted.",
        accounts |-> r.heap,
        transactions |-> TransactionsAppend(transactions, account_id,
                             <<transaction_id, amount, S_withdrawal, Status(r.ret)>>)]

\* choice "3"
TransferChoice(account_id, transaction_id, amount, recipient_account_id) ==
    IF recipient_account_id \notin DOMAIN accounts
    THEN [notice |-> "Recipient account ID not found.",
          accounts |-> accounts, transactions |-> transactions]
    ELSE LET r == transfer(accounts, account_id, amount, recipient_account_id)
         IN [notice |-> IF r.ret THEN "Transfer successful." ELSE "Operation aborted.",
             accounts |-> r.heap,
             transactions |-> TransactionsAppend(transactions, account_id,
                                  <<transaction_id, recipient_account_id, amount,
                                    S_transfer, Status(r.ret)>>)]

\* perform_operations numbering the records across all accounts
perform_operations_result_SharedIds(account_id, choice, amount, recipient_account_id) ==
    IF current_user = None
    THEN [notice |-> "Please login to perform operations.",
          accounts |-> accounts, transactions |-> transactions]
    ELSE IF account_id \notin DOMAIN accounts
    THEN [notice |-> "Account ID not found.",
          accounts |-> accounts, transactions |-> transactions]
    ELSE IF NotAuthorized(accounts[account_id])
    THEN [notice |-> "You are not authorized to perform operations on this account.",
          accounts |-> accounts, transactions |-> transactions]
    ELSE LET transaction_id == StrNat(Len(AllTransactions(transactions)) + 1)
         IN IF choice = "1"
            THEN DepositChoice(account_id, transaction_id, amount)
            ELSE IF choice = "2"
            THEN WithdrawalChoice(account_id, transaction_id, amount)
            ELSE IF choice = "3"
            THEN TransferChoice(account_id, transaction_id, amount,
                                recipient_account_id)
            ELSE [notice |-> "Invalid choice.",
                  accounts |-> accounts, transactions |-> transactions]

perform_operations_result(account_id, choice, amount, recipient_account_id) ==
    IF current_user = None
    THEN [notice |-> "Please login to perform operations.",
          accounts |-> accounts, transactions |-> transactions]
    ELSE IF account_id \notin DOMAIN accounts
    THEN [notice |-> "Account ID not found.",
          accounts |-> accounts, transactions |-> transactions]
    ELSE IF NotAuthorized(accounts[account_id])
    THEN [notice |-> "You are not authorized to perform operations on this account.",
          accounts |-> accounts, transactions |-> transactions]
    ELSE LET transaction_id ==
                 StrNat(Len(TransactionsGet(transactions, account_id)) + 1)
         IN IF choice = "1"
            THEN DepositChoice(account_id, transaction_id, amount)
            ELSE IF choice = "2"
            THEN WithdrawalChoice(account_id, transaction_id, amount)
            ELSE IF choice = "3"
            THEN TransferChoice(account_id, transaction_id, amount,
                                recipient_account_id)
            ELSE [notice |-> "Invalid choice.",
                  accounts |-> accounts, transactions |-> transactions]

perform_operations(account_id, choice, amount, recipient_account_id) ==
    LET r == perform_operations_result(account_id, choice, amount,
                                       recipient_account_id)
    IN /\ running
       /\ accounts' = r.accounts
       /\ transactions' = r.transactions
       /\ Bounded(accounts', transactions')
       /\ UNCHANGED <<customers, current_user, called, running>>

(***************************************************************************)
(* main.py: the flat files.  A file is the sequence of its lines.          *)
(***************************************************************************)
CustomerLine(c) ==
    Line(<<c.customer_id, c.name, StrInt(c.age), c.login, c.password>>)

AccountLine(a) ==
    IF isinstance(a, "SavingsAccount")
    THEN Line(<<a.account_id, a.customer_id, S_Savings, StrFloat(a.balance),
                StrInt(a.monthly_withdrawals)>>)
    ELSE Line(<<a.account_id, a.customer_id, S_Checking, StrFloat(a.balance)>>)

\* a 4-tuple is written with 5 fields, a 5-tuple with 6
TransactionLine(account_id, t) ==
    IF Len(t) = 4
    THEN Line(<<account_id, t[1], StrFloat(t[2]), t[3], t[4]>>)
    ELSE Line(<<account_id, t[1], t[2], StrFloat(t[3]), t[4], t[5]>>)

save_data(cs, as, ts) ==
    [customers |-> [i \in 1..Len(cs) |-> CustomerLine(cs[i])],
     accounts |-> LET ids == SeqOf(DOMAIN as)
                  IN [i \in 1..Len(ids) |-> AccountLine(as[ids[i]])],
     transactions |-> LET ids == SeqOf(DOMAIN ts)
                      IN Concat([i \in 1..Len(ids) |->
                             [j \in 1..Len(ts[ids[i]]) |->
                                 TransactionLine(ids[i], ts[ids[i]][j])]])]

EmptyMap == [k \in {} |-> 0]

\* the customers loop of load_data: unpacking a line that does not split
\* into five fields, and int() of a field that is no integer, raise ValueError
RECURSIVE LoadCustomers(_, _)
LoadCustomers(lines, cs) ==
    IF Len(lines) = 0 THEN [ok |-> TRUE, customers |-> cs]
    ELSE LET f == Split(Strip(lines[1]))
         IN IF Len(f) # 5 \/ ~IsInt(f[3])
            THEN [ok |-> FALSE, customers |-> cs]
            ELSE LoadCustomers(Tail(lines),
                     PutCustomer(cs, f[4],
                         Customer(f[1], f[2], IntOf(f[3]), f[4], f[5])))

\* the accounts loop: the number of fields selects the class; the type
\* label is not read, and credit_limit takes its default
RECURSIVE LoadAccounts(_, _)
LoadAccounts(lines, as) ==
    IF Len(lines) = 0 THEN [ok |-> TRUE, accounts |-> as]
    ELSE LET f == Split(Strip(lines[1]))
         IN IF Len(f) = 4
            THEN IF ~IsFloat(f[4]) THEN [ok |-> FALSE, accounts |-> as]
                 ELSE LoadAccounts(Tail(lines),
                          PutAccount(as, f[1],
                              CheckingAccount(f[1], f[2], FloatOf(f[4]), 0)))
            ELSE IF Len(f) = 5
            THEN IF ~IsFloat(f[4]) \/ ~IsInt(f[5])
                 THEN [ok |-> FALSE, accounts |-> as]
                 ELSE LoadAccounts(Tail(lines),
                          PutAccount(as, f[1],
                              SavingsAccount(f[1], f[2], FloatOf(f[4]), IntOf(f[5]))))
            ELSE LoadAccounts(Tail(lines), as)

\* the transactions loop
RECURSIVE LoadTransactions(_, _)
LoadTransactions(lines, ts) ==
    IF Len(lines) = 0 THEN [ok |-> TRUE, transactions |-> ts]
    ELSE LET f == Split(Strip(lines[1]))
         IN IF Len(f) = 5
            THEN IF ~IsFloat(f[3]) THEN [ok |-> FALSE, transactions |-> ts]
                 ELSE LoadTransactions(Tail(lines),
                          TransactionsAppend(ts, f[1],
                              <<f[2], FloatOf(f[3]), f[4], f[5]>>))
            ELSE IF Len(f) = 6
            THEN IF ~IsFloat(f[4]) THEN [ok |-> FALSE, transactions |-> ts]
                 ELSE LoadTransactions(Tail(lines),
                          TransactionsAppend(ts, f[1],
                              <<f[2], f[3], FloatOf(f[4]), f[5], f[6]>>))
            ELSE LoadTransactions(Tail(lines), ts)

\* load_data on the empty store of a new BankSystem; ok is FALSE when it
\* raises
load_data(files) ==
    LET c == LoadCustomers(files.customers, <<>>)
        a == LoadAccounts(files.accounts, EmptyMap)
        t == LoadTransactions(files.transactions, EmptyMap)
    IN [ok |-> c.ok /\ a.ok /\ t.ok,
        customers |-> c.customers,
        accounts |-> a.accounts,
        transactions |-> t.transactions]

\* the menu's logout (save_data, then logout), the exit of the login loop,
\* and the next run of the program: start() calls load_data on a new
\* BankSystem.  A ValueError out of load_data ends that run.
restart ==
    LET loaded == load_data(save_data(customers, accounts, transactions))
    IN /\ running
       /\ current_user # None
       /\ current_user' = None
       /\ customers' = IF loaded.ok THEN loaded.customers ELSE <<>>
       /\ accounts' = IF loaded.ok THEN loaded.accounts ELSE EmptyMap
       /\ transactions' = IF loaded.ok THEN loaded.transactions ELSE EmptyMap
       /\ running' = loaded.ok
       /\ UNCHANGED called

(***************************************************************************)
(* The bank system.  start() makes a new BankSystem and calls load_data:   *)
(* the initial state is the store it leaves when the data files hold two   *)
(* customers and no account.  The calls are those of the handlers, with    *)
(* their arguments drawn from the sets below.                              *)
(***************************************************************************)
S_a == <<"a">>
S_b == <<"b">>
S_c == <<"c">>
S_p == <<"p">>
S_q == <<"q">>
S_1 == <<"1">>
S_2 == <<"2">>

InitialFiles ==
    [customers |-> <<CustomerLine(Customer(S_1, <<"n">>, 20, S_a, sha256(S_p))),
                     CustomerLine(Customer(S_2, <<"m">>, 17, S_b, sha256(S_q)))>>,
     accounts |-> <<>>,
     transactions |-> <<>>]

LoginInputs == {S_a, S_b}
PasswordInputs == {S_p, S_q}
AdminPasswordInputs == {S_admin, S_p}
CustomerIdInputs == {StrNat(i) : i \in 1..3}
AccountTypeInputs == {S_Savings, S_Checking, <<"X">>}
AccountIdInputs == {StrNat(i) : i \in 1..MaxAccounts}
AmountInputs == {-1, 1}

Init ==
    /\ customers = load_data(InitialFiles).customers
    /\ accounts = load_data(InitialFiles).accounts
    /\ transactions = load_data(InitialFiles).transactions
    /\ current_user = None
    /\ called = None
    /\ running = TRUE

Next ==
    \/ \E l \in LoginInputs, p \in PasswordInputs : login(l, p)
    \/ \E p \in AdminPasswordInputs : admin_login(p)
    \/ logout
    \/ \E c \in CustomerIdInputs, t \in AccountTypeInputs : create_account(c, t)
    \/ \E a \in AccountIdInputs : view_transactions(a)
    \/ \E a \in AccountIdInputs, c \in {"1", "2", "4"}, x \in AmountInputs :
           perform_operations(a, c, x, a)
    \/ \E a \in AccountIdInputs, x \in AmountInputs, r \in AccountIdInputs :
           perform_operations(a, "3", x, r)
    \/ \E a \in AccountIdInputs : check_balance(a)
    \/ \E a \in AccountIdInputs : delete_account(a)
    \/ restart

Spec == Init /\ [][Next]_vars

(***************************************************************************)
(* The store under the administrator, with a customer created whose name   *)
(* holds the delimiter of the flat files.                                  *)
(***************************************************************************)
StoreCustomerInputs ==
    {[name |-> <<"n", ",", "m">>, age |-> 20, login |-> S_c, password |-> S_p]}

NextStore ==
    \/ admin_login(S_admin)
    \/ \E c \in StoreCustomerInputs :
           create_customer(c.name, c.age, c.login, c.password)
    \/ \E t \in {S_Savings, S_Checking} : create_account(S_1, t)
    \/ \E a \in AccountIdInputs, c \in {"1", "2"}, x \in AmountInputs :
           perform_operations(a, c, x, a)
    \/ \E a \in AccountIdInputs, x \in AmountInputs, r \in AccountIdInputs :
           perform_operations(a, "3", x, r)
    \/ \E a \in AccountIdInputs : delete_account(a)
    \/ restart

SpecStore == Init /\ [][NextStore]_vars

(***************************************************************************)
(* The customers and the session alone, from the empty store of a new      *)
(* BankSystem: customers created under logins already taken, and under the *)
(* login "admin".                                                          *)
(***************************************************************************)
AllCustomerInputs ==
    {[name |-> <<"n">>, age |-> 20, login |-> S_a, password |-> S_p],
     [name |-> <<"m">>, age |-> 13, login |-> S_a, password |-> S_q],
     [name |-> <<"n">>, age |-> 17, login |-> S_b, password |-> S_q],
     [name |-> <<"n">>, age |-> 20, login |-> S_admin, password |-> S_p]}

InitCustomers ==
    /\ customers = <<>>
    /\ accounts = EmptyMap
    /\ transactions = EmptyMap
    /\ current_user = None
    /\ called = None
    /\ running = TRUE

NextCustomers ==
    \/ \E c \in AllCustomerInputs :
           create_customer(c.name, c.age, c.login, c.password)
    \/ \E l \in {S_a, S_b, S_admin}, p \in PasswordInputs : login(l, p)
    \/ \E p \in AdminPasswordInputs : admin_login(p)
    \/ logout

SpecCustomers == InitCustomers /\ [][NextCustomers]_vars

(***************************************************************************)
(* The account classes alone: two objects of either class with any         *)
(* balance, counter and credit limit, and the methods called on them.      *)
(***************************************************************************)
MethodAmountInputs == {-1, 1, 2}

AccountObjects(ref) ==
    {SavingsAccount(ref, S_1, b, m) :
         b \in (0 - MaxBalance)..MaxBalance, m \in 0..MaxMonthlyWithdrawals}
    \cup {CheckingAccount(ref, S_1, b, c) :
         b \in (0 - MaxBalance)..MaxBalance, c \in 0..MaxCreditLimit}

InitAccount ==
    /\ customers = <<>>
    /\ \E x \in AccountObjects(S_1), y \in AccountObjects(S_2) :
           accounts = PutAccount(PutAccount(EmptyMap, S_1, x), S_2, y)
    /\ transactions = EmptyMap
    /\ current_user = None
    /\ called = None
    /\ running = TRUE

\* a method call: the heap it leaves, within the bound on balances, and in
\* `called` the method, the object, the recipient (the object itself when
\* the method takes none) and the value returned
call_deposit(self, amount) ==
    /\ accounts' = Account_deposit(accounts, self, amount).heap
    /\ called' = <<"deposit", self, self,
                   Account_deposit(accounts, self, amount).ret>>
    /\ Bounded(accounts', transactions)
    /\ UNCHANGED <<customers, transactions, current_user, running>>

call_withdrawal(self, amount) ==
    /\ accounts' = withdrawal(accounts, self, amount).heap
    /\ called' = <<"withdrawal", self, self,
                   withdrawal(accounts, self, amount).ret>>
    /\ Bounded(accounts', transactions)
    /\ UNCHANGED <<customers, transactions, current_user, running>>

call_transfer(self, amount, recipient_account) ==
    /\ accounts' = transfer(accounts, self, amount, recipient_account).heap
    /\ called' = <<"transfer", self, recipient_account,
                   transfer(accounts, self, amount, recipient_account).ret>>
    /\ Bounded(accounts', transactions)
    /\ UNCHANGED <<customers, transactions, current_user, running>>

NextAccount ==
    \/ \E self \in {S_1, S_2}, x \in MethodAmountInputs : call_deposit(self, x)
    \/ \E self \in {S_1, S_2}, x \in MethodAmountInputs : call_withdrawal(self, x)
    \/ \E self \in {S_1, S_2}, x \in MethodAmountInputs, r \in {S_1, S_2} :
           call_transfer(self, x, r)

SpecAccount == InitAccount /\ [][NextAccount]_vars

(***************************************************************************)
(* Properties of the account classes, under SpecAccount.                   *)
(***************************************************************************)
Refs == {S_1, S_2}

\* a step that is the call self.withdrawal(amount) or
\* self.transfer(amount, recipient) on an object of the class
WithdrawalOrTransfer(class, self, amount, recipient) ==
    /\ isinstance(accounts[self], class)
    /\ \/ recipient = self /\ call_withdrawal(self, amount)
       \/ call_transfer(self, amount, recipient)

CheckingOutcome(self, amount, debit) ==
    LET ok == accounts[self].balance + accounts[self].credit_limit >= amount
    IN /\ called'[4] = ok
       /\ accounts'[self].balance = accounts[self].balance - (IF ok THEN debit ELSE 0)
       /\ accounts'[self].credit_limit = accounts[self].credit_limit

\* C1 as stated: for a Checking account, withdrawal(amount) and
\* transfer(amount, recipient) return True exactly when balance +
\* credit_limit >= amount; the balance is then balance - amount, and is
\* unchanged when they return False; credit_limit is unchanged either way.
C1_AsStated ==
    [][\A self \in Refs, x \in MethodAmountInputs, r \in Refs :
          WithdrawalOrTransfer("CheckingAccount", self, x, r)
              => CheckingOutcome(self, x, x)]_vars

\* C1 amended: the same, where the recipient of a transfer is another
\* account; a transfer to the account itself that returns True leaves the
\* balance as it was.
C1_Checking ==
    [][\A self \in Refs, x \in MethodAmountInputs, r \in Refs :
          WithdrawalOrTransfer("CheckingAccount", self, x, r)
              => CheckingOutcome(self, x,
                     IF called'[1] = "transfer" /\ r = self THEN 0 ELSE x)]_vars

\* a Checking account has drawn on its credit limit: the call that
\* returned True left its balance below zero
C1_Witness ==
    /\ called # None
    /\ called[1] \in {"withdrawal", "transfer"}
    /\ called[4] = TRUE
    /\ isinstance(accounts[called[2]], "CheckingAccount")
    /\ accounts[called[2]].balance < 0

SavingsOutcome(self, amount, debit) ==
    LET ok == accounts[self].monthly_withdrawals > 0
    IN /\ called'[4] = ok
       /\ accounts'[self].balance = accounts[self].balance - (IF ok THEN debit ELSE 0)
       /\ accounts'[self].monthly_withdrawals =
              accounts[self].monthly_withdrawals - (IF ok THEN 1 ELSE 0)

\* C2 as stated: for a Savings account, a withdrawal or outgoing transfer
\* returns True exactly when monthly_withdrawals > 0; the counter is then
\* one less and the balance is balance - amount; both are unchanged when it
\* returns False.
C2_AsStated ==
    [][\A self \in Refs, x \in MethodAmountInputs, r \in Refs :
          WithdrawalOrTransfer("SavingsAccount", self, x, r)
              => SavingsOutcome(self, x, x)]_vars

\* C2 amended: the same, where the recipient of a transfer is another
\* account; a transfer to the account itself that returns True takes one
\* from the counter and leaves the balance as it was.
C2_Savings ==
    [][\A self \in Refs, x \in MethodAmountInputs, r \in Refs :
          WithdrawalOrTransfer("SavingsAccount", self, x, r)
              => SavingsOutcome(self, x,
                     IF called'[1] = "transfer" /\ r = self THEN 0 ELSE x)]_vars

\* a Savings account has spent its last withdrawal on a transfer to the
\* other account
C2_Witness ==
    /\ called # None
    /\ called[1] = "transfer"
    /\ called[2] # called[3]
    /\ called[4] = TRUE
    /\ isinstance(accounts[called[2]], "SavingsAccount")
    /\ accounts[called[2]].monthly_withdrawals = 0

(***************************************************************************)
(* Properties of the dispatcher, under Spec.  They are stated of the       *)
(* outcome a handler computes in a state, for every argument it can be     *)
(* called with there.                                                      *)
(***************************************************************************)
Succeeded(result) ==
    result.notice \in {"Deposit successful.", "Withdrawal successful.",
                       "Transfer successful."}

\* the balances of source and recipient after the transfer of amount that
\* perform_operations is asked for: less debit and more credit when it
\* succeeds, as they were when it fails
TransferBalances(account_id, recipient_account_id, amount, debit, credit) ==
    LET result == perform_operations_result(account_id, "3", amount,
                                            recipient_account_id)
        ok == Succeeded(result)
    IN /\ result.accounts[account_id].balance =
              accounts[account_id].balance - (IF ok THEN debit ELSE 0)
       /\ result.accounts[recipient_account_id].balance =
              accounts[recipient_account_id].balance + (IF ok THEN credit ELSE 0)

\* C3 as stated: a transfer of amount a that succeeds takes exactly a from
\* the source balance and adds exactly a to the recipient balance; one that
\* fails leaves both balances unchanged.
C3_AsStated ==
    \A a \in DOMAIN accounts, r \in DOMAIN accounts, x \in AmountInputs :
        TransferBalances(a, r, x, x, x)

\* C3 amended: the same for a recipient other than the source; a transfer
\* from an account to itself that succeeds leaves its balance unchanged.
C3_Transfer ==
    \A a \in DOMAIN accounts, r \in DOMAIN accounts, x \in AmountInputs :
        IF a = r THEN TransferBalances(a, r, x, 0, 0)
        ELSE TransferBalances(a, r, x, x, x)

\* a completed transfer of 1 is on record between two accounts: the source
\* stands at -1 and the recipient at 1
C3_Witness ==
    \E a \in DOMAIN transactions, r \in DOMAIN accounts :
        /\ a \in DOMAIN accounts
        /\ a # r
        /\ \E i \in 1..Len(transactions[a]) :
               transactions[a][i] = <<StrNat(i), r, 1, S_transfer, S_COMPLETE>>
        /\ accounts[a].balance = -1
        /\ accounts[r].balance = 1

Choices == {"1", "2", "3"}

\* C4 as stated, of the attempts that pass the session, lookup and
\* ownership checks: a deposit, withdrawal or transfer attempt on an
\* account appends exactly one record to that account's transaction list,
\* with status COMPLETE when it succeeded and ABORTED when it failed.
C4_AsStated ==
    \A a \in DOMAIN accounts, c \in Choices, x \in AmountInputs,
       r \in AccountIdInputs :
        (current_user # None /\ ~NotAuthorized(accounts[a])) =>
            LET result == perform_operations_result(a, c, x, r)
                old == TransactionsGet(transactions, a)
                new == TransactionsGet(result.transactions, a)
            IN /\ Len(new) = Len(old) + 1
               /\ SubSeq(new, 1, Len(old)) = old
               /\ new[Len(new)][Len(new[Len(new)])] = Status(Succeeded(result))
               /\ \A k \in DOMAIN transactions \ {a} :
                      result.transactions[k] = transactions[k]

CustomerSession == current_user # None /\ current_user # Some(S_admin)

\* the accounts that do not belong to the customer logged in
OtherAccounts ==
    {k \in DOMAIN accounts :
        accounts[k].customer_id # CustomerOf(customers, current_user[1]).customer_id}

\* view_transactions and check_balance show nothing of the account
NotRead(account_id) ==
    /\ view_transactions_result(account_id).shown = <<>>
    /\ check_balance_result(account_id).shown = <<>>

\* perform_operations on another customer's account changes nothing
Rejected(account_id, choice, amount, recipient_account_id) ==
    LET result == perform_operations_result(account_id, choice, amount,
                                            recipient_account_id)
    IN /\ ~Succeeded(result)
       /\ result.accounts = accounts
       /\ result.transactions = transactions

\* C5 as stated: in a customer's session perform_operations,
\* view_transactions and check_balance never change the balance or the
\* transaction list of, nor read, an account of another customer, and an
\* attempt that is rejected leaves the state unchanged.
C5_AsStated ==
    CustomerSession =>
        \A a \in AccountIdInputs, c \in Choices, x \in AmountInputs,
           r \in AccountIdInputs :
            LET result == perform_operations_result(a, c, x, r)
            IN /\ a \in OtherAccounts => Rejected(a, c, x, r) /\ NotRead(a)
               /\ \A k \in OtherAccounts :
                      /\ result.accounts[k] = accounts[k]
                      /\ TransactionsGet(result.transactions, k) =
                             TransactionsGet(transactions, k)

\* C5 amended: in a customer's session the three handlers reject another
\* customer's account as their target, show nothing of it, and leave the
\* state unchanged; an operation on the customer's own account changes of
\* another customer's account nothing but the balance, and that only when
\* the account is the recipient of a transfer that succeeds, by adding the
\* amount to it.
C5_Ownership ==
    CustomerSession =>
        \A a \in AccountIdInputs, c \in Choices, x \in AmountInputs,
           r \in AccountIdInputs :
            LET result == perform_operations_result(a, c, x, r)
            IN /\ a \in OtherAccounts => Rejected(a, c, x, r) /\ NotRead(a)
               /\ \A k \in OtherAccounts :
                      /\ result.accounts[k] =
                             [accounts[k] EXCEPT !.balance =
                                 IF c = "3" /\ k = r /\ Succeeded(result)
                                 THEN @ + x ELSE @]
                      /\ TransactionsGet(result.transactions, k) =
                             TransactionsGet(transactions, k)

\* customer a is logged in, and a completed transfer of 1 is on record
\* from an account of a to an account of customer b, which holds 1
C5_Witness ==
    /\ current_user = Some(S_a)
    /\ \E a \in DOMAIN transactions, r \in OtherAccounts :
           /\ a \in DOMAIN accounts \ OtherAccounts
           /\ \E i \in 1..Len(transactions[a]) :
                  transactions[a][i] = <<StrNat(i), r, 1, S_transfer, S_COMPLETE>>
           /\ accounts[r].balance = 1

\* C6 as stated: with nobody logged in, perform_operations,
\* view_transactions, check_balance and delete_account fail and leave the
\* accounts and the transactions unchanged.
C6_AsStated ==
    current_user = None =>
        \A a \in AccountIdInputs :
            /\ \A c \in Choices, x \in AmountInputs, r \in AccountIdInputs :
                   Rejected(a, c, x, r)
            /\ NotRead(a)
            /\ delete_account_result(a).notice # "deleted successfully."
            /\ delete_account_result(a).accounts = accounts
            /\ delete_account_result(a).transactions = transactions

\* C7 as stated: a balance is negative only on a Checking account, and is
\* then no less than -credit_limit; a Savings balance is never negative.
C7_AsStated ==
    \A k \in DOMAIN accounts :
        accounts[k].balance < 0 =>
            /\ isinstance(accounts[k], "CheckingAccount")
            /\ accounts[k].balance >= -accounts[k].credit_limit

\* C9 as stated: a create_account that succeeds assigns an account_id held
\* by no account in the store, and leaves every account of the store as it
\* was.
C9_AsStated ==
    \A c \in CustomerIdInputs, t \in AccountTypeInputs :
        LET result == create_account_result(c, t)
        IN \A k \in DOMAIN accounts :
               /\ k \in DOMAIN result.accounts
               /\ result.accounts[k] = accounts[k]

(***************************************************************************)
(* Properties of the customers, under SpecCustomers.                       *)
(***************************************************************************)
\* C8 as stated: no two customers of the store share a login or a
\* customer_id, and create_customer leaves every customer created before
\* in the store as it was.
C8_AsStated ==
    /\ \A i, j \in 1..Len(customers) :
           i # j => /\ customers[i].login # customers[j].login
                    /\ customers[i].customer_id # customers[j].customer_id
    /\ \A c \in AllCustomerInputs :
           LET result == create_customer_result(c.name, c.age, c.login, c.password)
           IN \A i \in 1..Len(customers) :
                  \E j \in 1..Len(result.customers) :
                      result.customers[j] = customers[i]

(***************************************************************************)
(* Properties of the flat files, under SpecStore.                          *)
(***************************************************************************)
\* C10 as stated: load_data, into a new store, of the files save_data
\* writes gives the customers, the accounts and the transaction lists of
\* the store that was saved.
C10_AsStated ==
    LET loaded == load_data(save_data(customers, accounts, transactions))
    IN /\ loaded.ok
       /\ loaded.customers = customers
       /\ loaded.accounts = accounts
       /\ loaded.transactions = transactions

(***************************************************************************)
(* Further properties of the dispatcher, under Spec.                       *)
(***************************************************************************)
\* create_account turns the customer down for his age
TooYoung(customer_id, account_type) ==
    \/ account_type = S_Savings /\ FoundCustomer(customer_id).age < 14
    \/ account_type = S_Checking /\ FoundCustomer(customer_id).age < 18

\* C11 as stated: for an existing customer, create_account leaves the
\* accounts unchanged when the customer is under 14 for Savings or under 18
\* for Checking; otherwise it adds exactly one account, of the variant
\* asked for, to the accounts there were.
C11_AsStated ==
    \A c \in CustomerIdInputs, t \in {S_Savings, S_Checking} :
        Found(c) # {} =>
            LET result == create_account_result(c, t)
            IN IF TooYoung(c, t)
               THEN result.accounts = accounts
               ELSE \E k \in DOMAIN result.accounts \ DOMAIN accounts :
                        /\ DOMAIN result.accounts = DOMAIN accounts \cup {k}
                        /\ \A j \in DOMAIN accounts :
                               result.accounts[j] = accounts[j]
                        /\ result.accounts[k] = NewAccount(k, c, t)

(***************************************************************************)
(* Deletion, under SpecDelete: the administrator creates accounts,         *)
(* deposits into them and deletes them, and `called` keeps the ids of the  *)
(* accounts that delete_account deleted, in the order of their deletion.   *)
(***************************************************************************)
Deleted == {called[i] : i \in 1..Len(called)}

\* delete_account, with the id of the account it deletes recorded
delete_account_recorded(account_id) ==
    /\ running
    /\ accounts' = delete_account_result(account_id).accounts
    /\ transactions' = delete_account_result(account_id).transactions
    /\ called' = IF account_id \in DOMAIN accounts /\ account_id \notin Deleted
                 THEN Append(called, account_id)
                 ELSE called
    /\ UNCHANGED <<customers, current_user, running>>

NextDelete ==
    \/ admin_login(S_admin)
    \/ \E c \in {S_1, S_2}, t \in {S_Savings, S_Checking} : create_account(c, t)
    \/ \E a \in AccountIdInputs, x \in AmountInputs :
           perform_operations(a, "1", x, a)
    \/ \E a \in AccountIdInputs : delete_account_recorded(a)

SpecDelete == Init /\ [][NextDelete]_vars

\* every handler that looks the account up reports it as not found
NotFound(account_id) ==
    /\ account_id \notin DOMAIN accounts
    /\ delete_account_result(account_id).notice = "Account ID not found."
    /\ current_user # None =>
           /\ view_transactions_result(account_id).notice = "Account ID not found."
           /\ check_balance_result(account_id).notice = "Account ID not found."
           /\ \A c \in Choices, x \in AmountInputs, r \in AccountIdInputs :
                  perform_operations_result(account_id, c, x, r).notice =
                      "Account ID not found."

\* C12 as stated: once delete_account has deleted an account, the
\* transactions hold no record for its id, and in every later state every
\* lookup of the id reports the account as not found.
C12_AsStated ==
    \A a \in Deleted : a \notin DOMAIN transactions /\ NotFound(a)

(***************************************************************************)
(* The scenario of a Checking account, under SpecScenario: customer a, of  *)
(* age 20, logs in, a Checking account is created for him, and he deposits *)
(* and withdraws the scenario's amounts.  The account's transaction list   *)
(* tells the operations made and their outcomes.                           *)
(***************************************************************************)
ScenarioSteps == 3
ScenarioAmounts == {50, 100, 120}

scenario_operations(choice, amount) ==
    LET r == perform_operations_result(S_1, choice, amount, S_1)
    IN /\ running
       /\ Len(TransactionsGet(transactions, S_1)) < ScenarioSteps
       /\ accounts' = r.accounts
       /\ transactions' = r.transactions
       /\ UNCHANGED <<customers, current_user, called, running>>

NextScenario ==
    \/ login(S_a, S_p)
    \/ create_account(S_1, S_Checking)
    \/ \E c \in {"1", "2"}, x \in ScenarioAmounts : scenario_operations(c, x)

SpecScenario == Init /\ [][NextScenario]_vars

\* the operations recorded for account 1, without their outcomes
Operations ==
    [i \in 1..Len(TransactionsGet(transactions, S_1)) |->
        <<transactions[S_1][i][3], transactions[S_1][i][2]>>]

\* the scenario up to its withdrawal of 50, and the whole of it
ScenarioStart == <<<<S_withdrawal, 50>>>>
Scenario == <<<<S_withdrawal, 50>>, <<S_deposit, 100>>, <<S_withdrawal, 120>>>>

\* the withdrawal of 50 from the new account fails and leaves the balance 0
ScenarioFirst ==
    Operations = ScenarioStart =>
        /\ transactions[S_1][1][4] = S_ABORTED
        /\ accounts[S_1].balance = 0

\* C13 as stated: on a new Checking account (credit limit 0, balance 0) of
\* a customer of age 20, a withdrawal of 50 fails and leaves the balance 0;
\* after a deposit of 100 a withdrawal of 120 succeeds and leaves -20.
C13_AsStated ==
    /\ ScenarioFirst
    /\ Operations = Scenario =>
           /\ transactions[S_1][3][4] = S_COMPLETE
           /\ accounts[S_1].balance = -20

\* C13 amended: the withdrawal of 50 fails and leaves the balance 0; the
\* deposit of 100 succeeds; the withdrawal of 120 then fails, as 100 + 0 <
\* 120, and leaves the balance 100.
C13_Scenario ==
    /\ ScenarioFirst
    /\ Operations = Scenario =>
           /\ transactions[S_1][2][4] = S_COMPLETE
           /\ transactions[S_1][3][4] = S_ABORTED
           /\ accounts[S_1].balance = 100

\* the scenario has run on the Checking account of customer 1
C13_Witness ==
    /\ S_1 \in DOMAIN accounts
    /\ isinstance(accounts[S_1], "CheckingAccount")
    /\ accounts[S_1].customer_id = S_1
    /\ accounts[S_1].credit_limit = 0
    /\ Operations = Scenario
    /\ accounts[S_1].balance = 100

(***************************************************************************)
(* Properties of the transaction lists, under Spec.                        *)
(***************************************************************************)
\* C14: in every reachable state the k-th record of every transaction
\* list, counting from 1 in the order of appending, has transaction_id k.
C14_TransactionIds ==
    \A a \in DOMAIN transactions :
        \A k \in 1..Len(transactions[a]) : transactions[a][k][1] = StrNat(k)

\* an account has two records, numbered 1 and 2
C14_Witness ==
    \E a \in DOMAIN transactions :
        /\ Len(transactions[a]) = 2
        /\ transactions[a][1][1] = S_1
        /\ transactions[a][2][1] = S_2

\* new is old with one record appended
Appended(old, new) ==
    /\ Len(new) = Len(old) + 1
    /\ SubSeq(new, 1, Len(old)) = old

\* C16: in every step a transaction list stays as it is, gets one record
\* appended at its end, or goes away whole together with its account; a
\* list that comes into being holds one record.
C16_AppendOnly ==
    [][/\ \A a \in DOMAIN transactions :
              IF a \in DOMAIN transactions'
              THEN \/ transactions'[a] = transactions[a]
                   \/ Appended(transactions[a], transactions'[a])
              ELSE a \in DOMAIN accounts /\ a \notin DOMAIN accounts'
       /\ \A a \in DOMAIN transactions' \ DOMAIN transactions :
              Appended(<<>>, transactions'[a])]_vars

\* account 1 has been deleted, and two records have been appended to the
\* list of account 2
C16_Witness ==
    /\ S_1 \notin DOMAIN accounts
    /\ S_1 \notin DOMAIN transactions
    /\ S_2 \in DOMAIN accounts
    /\ Len(TransactionsGet(transactions, S_2)) = 2

\* C18: a deposit of any amount, negative ones included, on an account the
\* session may operate on succeeds, adds the amount to the balance of that
\* account, changes nothing else of the accounts, and appends a deposit
\* record with status COMPLETE; no deposit record is ABORTED.
C18_Deposit ==
    /\ \A a \in DOMAIN accounts, x \in AmountInputs :
           (current_user # None /\ ~NotAuthorized(accounts[a])) =>
               LET result == perform_operations_result(a, "1", x, a)
                   old == TransactionsGet(transactions, a)
               IN /\ result.notice = "Deposit successful."
                  /\ result.accounts = [accounts EXCEPT ![a].balance = @ + x]
                  /\ result.transactions[a] =
                         Append(old, <<StrNat(Len(old) + 1), x, S_deposit, S_COMPLETE>>)
    /\ \A a \in DOMAIN transactions :
           \A k \in 1..Len(transactions[a]) :
               transactions[a][k][Len(transactions[a][k]) - 1] = S_deposit
                   => transactions[a][k][Len(transactions[a][k])] = S_COMPLETE

\* a deposit of -1 is the one record of an account, which stands at -1
C18_Witness ==
    \E a \in DOMAIN transactions :
        /\ a \in DOMAIN accounts
        /\ transactions[a] = <<<<S_1, -1, S_deposit, S_COMPLETE>>>>
        /\ accounts[a].balance = -1

(***************************************************************************)
(* The Savings counter, under Spec.                                        *)
(***************************************************************************)
\* the withdrawal and the transfers perform_operations can be asked for on
\* the account all fail
WithdrawalsFail(account_id) ==
    \A c \in {"2", "3"}, x \in AmountInputs, r \in AccountIdInputs :
        ~Succeeded(perform_operations_result(account_id, c, x, r))

\* a withdrawal by a session that may operate on the account succeeds and
\* leaves the counter at 0
LastWithdrawal(account_id) ==
    (current_user # None /\ ~NotAuthorized(accounts[account_id])) =>
        \A x \in AmountInputs :
            LET result == perform_operations_result(account_id, "2", x, account_id)
            IN /\ Succeeded(result)
               /\ result.accounts[account_id].monthly_withdrawals = 0

\* C15 as stated: the monthly_withdrawals of the Savings account under an
\* account id never increases in a step; while it is 0 every withdrawal
\* and outgoing transfer on that id fails; while it is 1 a withdrawal
\* succeeds and sets it to 0.
C15_AsStated ==
    [][\A a \in DOMAIN accounts :
          isinstance(accounts[a], "SavingsAccount") =>
              /\ accounts[a].monthly_withdrawals = 0 => WithdrawalsFail(a)
              /\ accounts[a].monthly_withdrawals = 1 => LastWithdrawal(a)
              /\ (a \in DOMAIN accounts' /\ isinstance(accounts'[a], "SavingsAccount"))
                     => accounts'[a].monthly_withdrawals
                            <= accounts[a].monthly_withdrawals]_vars

(***************************************************************************)
(* The session, under SpecCustomers.                                       *)
(***************************************************************************)
SessionLoginInputs == {S_a, S_b, S_admin}

\* the session is None, the login of a customer, or the admin sentinel
SessionOK ==
    current_user \in {None, Some(S_admin)}
                         \cup {Some(l) : l \in Logins(customers)}

\* login sets the session to the login exactly when the login is known and
\* the password hashes to the hash stored for it, and admin_login sets it
\* to the admin sentinel exactly for the admin password; otherwise they
\* leave the session as it is
LoginOK ==
    /\ \A l \in SessionLoginInputs, p \in PasswordInputs :
           login_result(l, p).current_user =
               IF /\ l \in Logins(customers)
                  /\ CustomerOf(customers, l).password = sha256(p)
               THEN Some(l) ELSE current_user
    /\ \A p \in AdminPasswordInputs :
           admin_login_result(p).current_user =
               IF p = S_admin THEN Some(S_admin) ELSE current_user

\* C17: the session is always None, the login of a customer or the admin
\* sentinel; login and admin_login set it exactly on matching credentials
\* and leave it unchanged otherwise; logout sets it to None.
C17_Session ==
    [][/\ SessionOK
       /\ SessionOK'
       /\ LoginOK
       /\ logout => current_user' = None]_vars

\* customer b is logged in, with a customer created before him
C17_Witness ==
    /\ current_user = Some(S_b)
    /\ S_b \in Logins(customers)
    /\ Len(customers) = 2

\* C19 as stated: no customer login puts the session into the state the
\* ownership checks treat as admin; only admin_login does.
C19_AsStated ==
    \A l \in SessionLoginInputs, p \in PasswordInputs :
        login_result(l, p).current_user = Some(S_admin)
            => current_user = Some(S_admin)

====
